---- MODULE Spec2Model ----
(***************************************************************************)
(* DeepSpeed-MII: replica planner, port allocator, startup supervisor and  *)
(* tensor-parallel query dispatch.                                         *)
(*                                                                         *)
(* A Python dict is modelled as a sequence of <<key, value>> pairs with    *)
(* distinct keys, so that insertion (iteration) order is part of the       *)
(* value.                                                                  *)
(***************************************************************************)
EXTENDS Integers, Sequences, FiniteSets, TLC

(* ---------------------------------------------------------------------- *)
(* Bounds                                                                 *)
(* ---------------------------------------------------------------------- *)
MaxSlots == 4
MaxTensorParallel == 3
MaxReplicas == 3
MaxDeployments == 2
MaxGpus == 2
MaxQueries == 2
MaxCalls == 2

(* Hosts that may appear in a hostfile, and one host that never does.     *)
Hosts == {"h1", "h2"}
AbsentHost == "h3"

(* Slot lists a caller writes in a GPU_index_map                          *)
(* (src/examples/multi_model/deploy.py uses [0], [1], [0, 1]).            *)
SlotLists == {<<0>>, <<0, 1>>, <<1, 1>>}

(* ---------------------------------------------------------------------- *)
(* Program constants                                                      *)
(* ---------------------------------------------------------------------- *)
port_number_default == 50050
torch_dist_port_default == 29500
port_offset == 1

(* ---------------------------------------------------------------------- *)
(* Helpers on ordered dicts                                               *)
(* ---------------------------------------------------------------------- *)
Keys(d) == {d[i][1] : i \in 1..Len(d)}

Lookup(d, k) == d[CHOOSE i \in 1..Len(d) : d[i][1] = k][2]

OrderedDicts(K, V, maxLen) ==
    UNION {{d \in [1..n -> K \X V] :
                \A i, j \in 1..n : i # j => d[i][1] # d[j][1]} : n \in 0..maxLen}

Range(s) == {s[i] : i \in 1..Len(s)}

SetMax(S) == CHOOSE m \in S : \A x \in S : x <= m

(* range(a, b) of Python as a sequence                                    *)
PyRange(a, b) == [i \in 1..(IF b > a THEN b - a ELSE 0) |-> a + i - 1]

(* ---------------------------------------------------------------------- *)
(* Input domains                                                          *)
(* ---------------------------------------------------------------------- *)
ResourcePools == OrderedDicts(Hosts, 0..MaxSlots, Cardinality(Hosts))

NoIndexMap == [given |-> FALSE, map |-> <<>>]

GPUIndexMaps ==
    {NoIndexMap} \cup
    {[given |-> TRUE, map |-> m] :
        m \in OrderedDicts(Hosts \cup {AbsentHost}, SlotLists, 2)}

(* ---------------------------------------------------------------------- *)
(* _allocate_processes: the replica planner                               *)
(* ---------------------------------------------------------------------- *)
PlanOk(pool) ==
    [status |-> "ok", replica_pool |-> pool, host |-> "none",
     slots |-> 0, requested |-> 0, allocated |-> 0]

PlanError(kind, h, s, req, alloc) ==
    [status |-> kind, replica_pool |-> <<>>, host |-> h,
     slots |-> s, requested |-> req, allocated |-> alloc]

(* First loop of the explicit branch: the first host, in the map's order,  *)
(* that fails one of the two assertions; 0 when every host passes.         *)
FirstBadExplicitSkipped(resource_pool, tensor_parallel, map) == 0

FirstBadExplicit(resource_pool, tensor_parallel, map) ==
    LET bad == {i \in 1..Len(map) :
                   \/ map[i][1] \notin Keys(resource_pool)
                   \/ Lookup(resource_pool, map[i][1]) < tensor_parallel}
    IN IF bad = {} THEN 0 ELSE CHOOSE i \in bad : \A j \in bad : i <= j

ExplicitPlacement(resource_pool, tensor_parallel, map) ==
    LET b == FirstBadExplicit(resource_pool, tensor_parallel, map)
    IN IF b = 0
       THEN PlanOk([i \in 1..Len(map) |-> <<map[i][1], map[i][2]>>])
       ELSE IF map[b][1] \notin Keys(resource_pool)
            THEN PlanError("host_not_found", map[b][1], 0, 0, 0)
            ELSE PlanError("host_slots", map[b][1],
                           Lookup(resource_pool, map[b][1]), tensor_parallel, 0)

(* [i for i in range(allocated_num_on_host,                               *)
(*                     allocated_num_on_host + tensor_parallel)]           *)
SlotWindowFromZero(allocated_num_on_host, tensor_parallel) ==
    PyRange(0, tensor_parallel)

SlotWindowOverlapping(allocated_num_on_host, tensor_parallel) ==
    LET start == IF allocated_num_on_host > 0
                 THEN allocated_num_on_host - 1 ELSE 0
    IN PyRange(start, start + tensor_parallel)

SlotWindow(allocated_num_on_host, tensor_parallel) ==
    PyRange(allocated_num_on_host, allocated_num_on_host + tensor_parallel)

(* if allocated_num < num_replicas: raise ValueError(...); return replica_pool *)
FinalCheckReportsRequested(num_replicas, allocated_num, replica_pool) ==
    IF allocated_num < num_replicas
    THEN PlanError("insufficient", "none", 0, num_replicas, num_replicas)
    ELSE PlanOk(replica_pool)

FinalCheckAbsent(num_replicas, allocated_num, replica_pool) ==
    PlanOk(replica_pool)

FinalCheckOffByOne(num_replicas, allocated_num, replica_pool) ==
    IF allocated_num + 1 < num_replicas
    THEN PlanError("insufficient", "none", 0, num_replicas, allocated_num)
    ELSE PlanOk(replica_pool)

FinalCheck(num_replicas, allocated_num, replica_pool) ==
    IF allocated_num < num_replicas
    THEN PlanError("insufficient", "none", 0, num_replicas, allocated_num)
    ELSE PlanOk(replica_pool)

(* The while loop over one host.  Returns the carve state after the loop.  *)
RECURSIVE CarveHost(_, _, _, _, _, _, _)
CarveHost(host, slots, available_on_host, tensor_parallel, num_replicas, allocated_num, replica_pool) ==
    IF available_on_host >= tensor_parallel
    THEN IF allocated_num >= num_replicas
         THEN [err |-> FALSE, allocated_num |-> allocated_num,
               replica_pool |-> replica_pool]
         ELSE IF slots < tensor_parallel
              THEN [err |-> TRUE, allocated_num |-> allocated_num,
                    replica_pool |-> replica_pool]
              ELSE LET allocated_num_on_host == slots - available_on_host
                   IN CarveHost(host, slots,
                                available_on_host - tensor_parallel,
                                tensor_parallel, num_replicas,
                                allocated_num + 1,
                                Append(replica_pool,
                                       <<host,
                                         SlotWindow(allocated_num_on_host,
                                                    tensor_parallel)>>))
    ELSE [err |-> FALSE, allocated_num |-> allocated_num,
          replica_pool |-> replica_pool]

(* The per-host capacity error raised for every host that is too small     *)
RECURSIVE ScanHostsStrict(_, _, _, _, _, _)
ScanHostsStrict(resource_pool, idx, tensor_parallel, num_replicas, allocated_num, replica_pool) ==
    IF idx > Len(resource_pool)
    THEN FinalCheck(num_replicas, allocated_num, replica_pool)
    ELSE LET host == resource_pool[idx][1]
             slots == resource_pool[idx][2]
             c == CarveHost(host, slots, slots, tensor_parallel, num_replicas,
                            allocated_num, replica_pool)
         IN IF slots < tensor_parallel
            THEN PlanError("host_slots", host, slots, tensor_parallel, 0)
            ELSE ScanHostsStrict(resource_pool, idx + 1, tensor_parallel,
                                 num_replicas, c.allocated_num, c.replica_pool)

(* The hosts visited from the last item of the catalog to the first        *)
RECURSIVE ScanHostsBackwards(_, _, _, _, _, _)
ScanHostsBackwards(resource_pool, idx, tensor_parallel, num_replicas, allocated_num, replica_pool) ==
    IF idx > Len(resource_pool)
    THEN FinalCheck(num_replicas, allocated_num, replica_pool)
    ELSE LET item == resource_pool[Len(resource_pool) - idx + 1]
             c == CarveHost(item[1], item[2], item[2], tensor_parallel,
                            num_replicas, allocated_num, replica_pool)
         IN ScanHostsBackwards(resource_pool, idx + 1, tensor_parallel,
                               num_replicas, c.allocated_num, c.replica_pool)

(* The for loop over resource_pool.items(), from item idx on.  *)
RECURSIVE ScanHosts(_, _, _, _, _, _)
ScanHosts(resource_pool, idx, tensor_parallel, num_replicas, allocated_num, replica_pool) ==
    IF idx > Len(resource_pool)
    THEN FinalCheck(num_replicas, allocated_num, replica_pool)
    ELSE LET host == resource_pool[idx][1]
             slots == resource_pool[idx][2]
             c == CarveHost(host, slots, slots, tensor_parallel, num_replicas,
                            allocated_num, replica_pool)
         IN IF c.err
            THEN PlanError("host_slots", host, slots, tensor_parallel, 0)
            ELSE ScanHosts(resource_pool, idx + 1, tensor_parallel,
                           num_replicas, c.allocated_num, c.replica_pool)

AutomaticPlacement(resource_pool, tensor_parallel, num_replicas) ==
    ScanHosts(resource_pool, 1, tensor_parallel, num_replicas, 0, <<>>)

_allocate_processes(resource_pool, tensor_parallel, num_replicas, gpu_index_map) ==
    IF Len(resource_pool) = 0
    THEN PlanError("no_hosts", "none", 0, 0, 0)
    ELSE IF gpu_index_map.given
         THEN ExplicitPlacement(resource_pool, tensor_parallel, gpu_index_map.map)
         ELSE AutomaticPlacement(resource_pool, tensor_parallel, num_replicas)

(* ---------------------------------------------------------------------- *)
(* allocate_processes: the port allocator (one deployment of the loop)    *)
(* ---------------------------------------------------------------------- *)
(* base_port of replica i on hostname, given the ports reserved so far.   *)
BasePortNoAdvance(port_number, i, tensor_parallel, reserved) ==
    port_number + i * tensor_parallel + port_offset

BasePort(port_number, i, tensor_parallel, reserved) ==
    LET base_port == port_number + i * tensor_parallel + port_offset
    IN IF base_port \in reserved THEN SetMax(reserved) + 1 ELSE base_port

ReplicaConfig(deployment_name, hostname, tensor_parallel_ports, torch_dist_port, gpu_indices, tensor_parallel) ==
    [deployment_name |-> deployment_name,
     hostname |-> hostname,
     tensor_parallel_ports |-> tensor_parallel_ports,
     torch_dist_port |-> torch_dist_port,
     gpu_indices |-> gpu_indices,
     tensor_parallel |-> tensor_parallel]

(* for i, (hostname, gpu_indices) in enumerate(replica_pool), from        *)
(* enumerate index i on.  The inner "for i in range(...)" rebinds i, so   *)
(* torch_dist_port is computed from the last port of the block.           *)
RECURSIVE AllocatePorts(_, _, _, _, _, _, _)
AllocatePorts(replica_pool, i, deployment_name, tensor_parallel, port_number, pm, configs) ==
    IF i >= Len(replica_pool)
    THEN [port_map |-> pm, replica_configs |-> configs]
    ELSE LET hostname == replica_pool[i + 1][1]
             gpu_indices == replica_pool[i + 1][2]
             pm1 == IF hostname \in DOMAIN pm THEN pm ELSE pm @@ (hostname :> {})
             base_port == BasePort(port_number, i, tensor_parallel, pm1[hostname])
             tensor_parallel_ports == PyRange(base_port, base_port + tensor_parallel)
             pm2 == [pm1 EXCEPT ![hostname] = @ \cup Range(tensor_parallel_ports)]
             last_i == IF tensor_parallel > 0 THEN base_port + tensor_parallel - 1 ELSE i
             torch_dist_port == torch_dist_port_default + last_i
         IN AllocatePorts(replica_pool, i + 1, deployment_name, tensor_parallel,
                          port_number, pm2,
                          Append(configs,
                                 ReplicaConfig(deployment_name, hostname,
                                               tensor_parallel_ports,
                                               torch_dist_port, gpu_indices,
                                               tensor_parallel)))

(* ---------------------------------------------------------------------- *)
(* MIIConfig.generate_replica_configs: the same allocation as a validator  *)
(* ---------------------------------------------------------------------- *)
(* for i, (hostname, gpu_indices) in enumerate(replica_pool), from         *)
(* enumerate index i on.  The inner "for i in range(...)" rebinds i, so    *)
(* replica_torch_dist_port = torch_dist_port + (100 * i) reads the last    *)
(* port of the block.                                                      *)
RECURSIVE GenerateReplicaConfigs(_, _, _, _, _, _, _, _)
GenerateReplicaConfigs(replica_pool, i, deployment_name, tensor_parallel, port_number, torch_dist_port, pm, configs) ==
    IF i >= Len(replica_pool)
    THEN [port_map |-> pm, replica_configs |-> configs]
    ELSE LET hostname == replica_pool[i + 1][1]
             gpu_indices == replica_pool[i + 1][2]
             pm1 == IF hostname \in DOMAIN pm THEN pm ELSE pm @@ (hostname :> {})
             base_port == BasePort(port_number, i, tensor_parallel, pm1[hostname])
             tensor_parallel_ports == PyRange(base_port, base_port + tensor_parallel)
             pm2 == [pm1 EXCEPT ![hostname] = @ \cup Range(tensor_parallel_ports)]
             last_i == IF tensor_parallel > 0 THEN base_port + tensor_parallel - 1 ELSE i
             replica_torch_dist_port == torch_dist_port + (100 * last_i)
         IN GenerateReplicaConfigs(replica_pool, i + 1, deployment_name,
                                   tensor_parallel, port_number, torch_dist_port, pm2,
                                   Append(configs,
                                          ReplicaConfig(deployment_name, hostname,
                                                        tensor_parallel_ports,
                                                        replica_torch_dist_port,
                                                        gpu_indices,
                                                        tensor_parallel)))

(* deployment_config.replica_configs as the caller may have set it: empty, *)
(* or replica configs written by hand, which no validator looks into.      *)
PresetReplicaConfigs(deployment_name) ==
    LET first_port == port_number_default + port_offset
    IN {<<>>,
        <<ReplicaConfig(deployment_name, "h1", <<first_port>>,
                        torch_dist_port_default, <<0>>, 1)>>,
        <<ReplicaConfig(deployment_name, "h1", <<first_port, first_port + 1>>,
                        torch_dist_port_default, <<0>>, 2)>>,
        <<ReplicaConfig(deployment_name, "h1", <<first_port>>,
                        torch_dist_port_default, <<0>>, 1),
          ReplicaConfig(deployment_name, "h2", <<first_port + 1>>,
                        torch_dist_port_default + 100, <<0>>, 1)>>}

(* ---------------------------------------------------------------------- *)
(* Serialization of the configuration handed to a worker process          *)
(* ---------------------------------------------------------------------- *)
(* A Python container: kind "set" holds a set, kind "list" a sequence      *)
PyValue(kind, items) == [kind |-> kind, items |-> items]

(* The elements of a set in ascending order                                *)
RECURSIVE Ascending(_)
Ascending(S) ==
    IF S = {} THEN <<>>
    ELSE LET m == CHOOSE x \in S : \A y \in S : x <= y
         IN <<m>> \o Ascending(S \ {m})

(* mii_configs.json(): JSON has arrays only, a set is written as an array  *)
JsonDumps(v) ==
    [kind |-> "array",
     items |-> IF v.kind = "set" THEN Ascending(v.items) ELSE v.items]

(* json.loads(...): an array is read as a list                             *)
JsonLoads(j) == PyValue("list", j.items)

(* Equality of Python containers: a list never equals a set                *)
PyEqual(a, b) == a.kind = b.kind /\ a.items = b.items

(* ---------------------------------------------------------------------- *)
(* State                                                                  *)
(* ---------------------------------------------------------------------- *)
VARIABLES
    resource_pool,      \* fetch_hostfile(hostfile): host -> slots, ordered
    plan,               \* last call of _allocate_processes: arguments, result
    port_map,           \* hostname -> set of reserved ports
    replica_configs,    \* replica_configs list of allocate_processes
    deployments_done,   \* deployments the loop of allocate_processes has handled
    alloc_pc,           \* "loop" | "returned" | "raised" | "deployed"
    score_file,         \* what is stored at the deployment tag's score path
    deployment_type,    \* deployment_type of deploy(), "unset" until it is read
    launched,           \* _deploy_local has started the deployment
    replica_nums        \* per deployment of the config: replica_num, how the loop met it

persistVars == <<score_file, deployment_type, launched>>

EmptyPortMap == [h \in {} |-> {}]

planVars == <<resource_pool, plan, port_map, replica_configs,
              deployments_done, alloc_pc, persistVars, replica_nums>>

(* The score file as create_score_file writes it                           *)
ScoreFile(deployments, pm, lb_config) ==
    [written |-> TRUE, deployments |-> deployments,
     port_map |-> pm, replica_configs |-> lb_config]

(* Whatever the score path held before deploy() was called                 *)
ScoreFileBefore ==
    [written |-> FALSE, deployments |-> 0,
     port_map |-> EmptyPortMap, replica_configs |-> <<>>]

DeploymentTypes == {"LOCAL", "AML", "NON_PERSISTENT"}

NoPlan == [called |-> FALSE, calls |-> 0, tensor_parallel |-> 0,
           num_replicas |-> 0, gpu_index_map |-> NoIndexMap,
           result |-> PlanOk(<<>>)]

InitPlanVars ==
    /\ resource_pool \in ResourcePools
    /\ plan = NoPlan
    /\ port_map = EmptyPortMap
    /\ replica_configs = <<>>
    /\ deployments_done = 0
    /\ alloc_pc = "loop"
    /\ score_file = ScoreFileBefore
    /\ deployment_type = "unset"
    /\ launched = FALSE
    /\ replica_nums = <<>>

(* A call that found the replica_pool list of the call before it           *)
PlannerCallCarryOver(tensor_parallel, num_replicas, gpu_index_map) ==
    LET r == _allocate_processes(resource_pool, tensor_parallel, num_replicas,
                                 gpu_index_map)
    IN IF plan.called /\ r.status = "ok"
       THEN [r EXCEPT !.replica_pool = plan.result.replica_pool \o @]
       ELSE r

(* resource_pool = fetch_hostfile(hostfile_path); replica_pool = []: every *)
(* call reads the catalog and starts from an empty list of its own.        *)
PlannerCall(tensor_parallel, num_replicas, gpu_index_map) ==
    _allocate_processes(resource_pool, tensor_parallel, num_replicas,
                        gpu_index_map)

(* One call of the planner on drawn arguments.                            *)
RunPlanner ==
    /\ ~plan.called
    /\ \E tp \in 1..MaxTensorParallel, n \in 1..MaxReplicas, g \in GPUIndexMaps :
          plan' = [called |-> TRUE, calls |-> 1, tensor_parallel |-> tp,
                   num_replicas |-> n, gpu_index_map |-> g,
                   result |-> PlannerCall(tp, n, g)]
    /\ UNCHANGED <<resource_pool, port_map, replica_configs,
                   deployments_done, alloc_pc, persistVars, replica_nums>>

(* Another call of the planner on the arguments of the call before it.    *)
RunPlannerAgain ==
    /\ plan.called
    /\ plan.calls < MaxCalls
    /\ plan' = [plan EXCEPT !.calls = @ + 1,
                            !.result = PlannerCall(plan.tensor_parallel,
                                                   plan.num_replicas,
                                                   plan.gpu_index_map)]
    /\ UNCHANGED <<resource_pool, port_map, replica_configs,
                   deployments_done, alloc_pc, persistVars, replica_nums>>

(* One iteration of "for deployment in deployments.values()".             *)
AllocateDeployment ==
    /\ alloc_pc = "loop"
    /\ deployments_done < MaxDeployments
    /\ \E tp \in 1..MaxTensorParallel, n \in 1..MaxReplicas, g \in GPUIndexMaps :
          LET r == _allocate_processes(resource_pool, tp, n, g)
              a == AllocatePorts(r.replica_pool, 0, deployments_done + 1, tp,
                                 port_number_default, port_map, replica_configs)
          IN IF r.status = "ok"
             THEN /\ port_map' = a.port_map
                  /\ replica_configs' = a.replica_configs
                  /\ deployments_done' = deployments_done + 1
                  /\ alloc_pc' = "loop"
             ELSE /\ alloc_pc' = "raised"
                  /\ UNCHANGED <<port_map, replica_configs, deployments_done>>
    /\ UNCHANGED <<resource_pool, plan, persistVars, replica_nums>>

(* A deployment of deployment_configs: its replica_num, whether its        *)
(* replica_configs were set beforehand, whether the loop reached it        *)
DeploymentSeen(replica_num, preset, visited) ==
    [replica_num |-> replica_num, preset |-> preset, visited |-> visited]

(* One iteration of "for deployment_config in ....values()" of             *)
(* generate_replica_configs.  Replica configs already set end the whole    *)
(* validator: "return values" leaves the loop, not only the iteration.     *)
GenerateDeployment ==
    /\ alloc_pc = "loop"
    /\ deployments_done < MaxDeployments
    /\ \E n \in 1..MaxReplicas, preset \in PresetReplicaConfigs(deployments_done + 1) :
          IF preset # <<>>
          THEN /\ alloc_pc' = IF Len(preset) = n THEN "returned" ELSE "raised"
               /\ replica_configs' = replica_configs \o preset
               /\ deployments_done' = deployments_done + 1
               /\ replica_nums' = Append(replica_nums, DeploymentSeen(n, TRUE, TRUE))
               /\ UNCHANGED port_map
          ELSE \E tp \in 1..MaxTensorParallel, g \in GPUIndexMaps :
               LET r == _allocate_processes(resource_pool, tp, n, g)
                   a == GenerateReplicaConfigs(r.replica_pool, 0, deployments_done + 1,
                                               tp, port_number_default,
                                               torch_dist_port_default,
                                               port_map, replica_configs)
               IN IF r.status = "ok"
                  THEN /\ port_map' = a.port_map
                       /\ replica_configs' = a.replica_configs
                       /\ deployments_done' = deployments_done + 1
                       /\ replica_nums' = Append(replica_nums, DeploymentSeen(n, FALSE, TRUE))
                       /\ alloc_pc' = "loop"
                  ELSE /\ alloc_pc' = "raised"
                       /\ UNCHANGED <<port_map, replica_configs, deployments_done,
                                      replica_nums>>
    /\ UNCHANGED <<resource_pool, plan, persistVars>>

(* The loop of generate_replica_configs is over: return values             *)
GenerateReturn ==
    /\ alloc_pc = "loop"
    /\ alloc_pc' = "returned"
    /\ UNCHANGED <<resource_pool, plan, port_map, replica_configs,
                   deployments_done, persistVars, replica_nums>>

(* "return values" inside the loop: a deployment that comes after the      *)
(* returning one in deployment_configs is never reached; it keeps the      *)
(* replica_configs it was constructed with.                                *)
GenerateSkipped ==
    /\ alloc_pc = "returned"
    /\ deployments_done >= 1
    /\ replica_nums[deployments_done].preset
    /\ Len(replica_nums) < MaxDeployments
    /\ \E n \in 1..MaxReplicas,
          preset \in PresetReplicaConfigs(Len(replica_nums) + 1) :
          /\ Len(preset) \in {0, n}
          /\ replica_configs' = replica_configs \o preset
          /\ replica_nums' = Append(replica_nums,
                                    DeploymentSeen(n, preset # <<>>, FALSE))
    /\ UNCHANGED <<resource_pool, plan, port_map, deployments_done, alloc_pc,
                   persistVars>>

(* lb_config = LoadBalancerConfig(...); return lb_config, port_map        *)
AllocateReturn ==
    /\ alloc_pc = "loop"
    /\ deployments_done >= 1
    /\ alloc_pc' = "returned"
    /\ UNCHANGED <<resource_pool, plan, port_map, replica_configs,
                   deployments_done, persistVars, replica_nums>>

(* deploy(): allocate_processes has returned, line 147 is behind           *)
PlanningDoneOrFailed == alloc_pc \in {"returned", "raised"}

PlanningDone == alloc_pc = "returned"

(* deploy() with no deployment: "if not deployments:" writes a score file  *)
(* without deployments, port map or load balancer config, and returns.     *)
DeployEmpty ==
    /\ alloc_pc = "loop"
    /\ deployments_done = 0
    /\ \E t \in DeploymentTypes : deployment_type' = t
    /\ score_file' = ScoreFile(0, EmptyPortMap, <<>>)
    /\ alloc_pc' = "deployed"
    /\ UNCHANGED <<resource_pool, plan, port_map, replica_configs,
                   deployments_done, launched, replica_nums>>

(* deploy() after allocate_processes: create_score_file unless the         *)
(* deployment is NON_PERSISTENT, then the branch on deployment_type.       *)
DeployFinish ==
    /\ PlanningDone
    /\ \E t \in DeploymentTypes :
          /\ deployment_type' = t
          /\ score_file' = IF t # "NON_PERSISTENT"
                           THEN ScoreFile(deployments_done, port_map, replica_configs)
                           ELSE score_file
          /\ launched' = (t = "LOCAL")
    /\ alloc_pc' = "deployed"
    /\ UNCHANGED <<resource_pool, plan, port_map, replica_configs,
                   deployments_done, replica_nums>>

(* ---------------------------------------------------------------------- *)
(* MIIServerClient: startup supervisor and dispatch client                *)
(* ---------------------------------------------------------------------- *)
VARIABLES
    num_gpus,               \* self.num_gpus (mii_configs.tensor_parallel)
    use_grpc_server_arg,    \* constructor argument use_grpc_server
    initialize_grpc_client, \* constructor argument of the launching client
    foreign_listener,       \* another program already listens on port_number
    ctor_pc,                \* position of the launching client's __init__
    sockets_open,           \* local of _wait_until_server_is_live
    process,                \* self.process: "none" | "running" | "exited"
    worker,                 \* per local rank: "none" | "starting" | "listening" | "exited"
    stubs,                  \* per client object: ports of self.stubs, in order
    query_num,              \* queries issued so far
    q_pc,                   \* latest query: "idle" | "awaiting" | "returned" | "raised"
    q_client,               \* latest query: the client object it was issued on
    calls,                  \* latest query, per shard: "none" | "pending" | "ok" | "failed"
    first_done,             \* latest query: the shard whose call resolved first, -1 if none
    ret,                    \* latest query: what query() returned or raised
    stale,                  \* calls of earlier queries that are still in flight
    prev_ret,               \* what the query before the latest returned or raised
    early_exit              \* a worker exited while Starting with a shard port unreachable

clientVars == <<num_gpus, use_grpc_server_arg, initialize_grpc_client,
                foreign_listener, ctor_pc, sockets_open, process, worker, stubs,
                query_num, q_pc, q_client, calls, first_done, ret, stale,
                prev_ret, early_exit>>

Clients == {"launcher", "handle"}

Shards == 0..(num_gpus - 1)

(* self.use_grpc_server = True if (self.num_gpus > 1) else use_grpc_server *)
UseGrpcServer(c) ==
    IF c = "handle" THEN TRUE
    ELSE IF num_gpus > 1 THEN TRUE ELSE use_grpc_server_arg

(* self.initialize_grpc_client; mii_query_handle passes True               *)
InitializeGrpcClientFlag(c) ==
    IF c = "handle" THEN TRUE ELSE initialize_grpc_client

(* port = args.server_port + local_rank                                    *)
ServerPort(local_rank) == port_number_default + local_rank

(* _is_socket_open(port): connect_ex(...) == 0                             *)
IsSocketOpen(port) ==
    \/ foreign_listener /\ port = port_number_default
    \/ \E k \in Shards : worker[k] = "listening" /\ ServerPort(k) = port

AllShardPortsOpen == \A k \in Shards : IsSocketOpen(ServerPort(k))

(* _is_server_process_alive: process.wait(1) timing out means alive        *)
IsServerProcessAliveAlways == TRUE

IsServerProcessAlive == process # "exited"

(* Ports of the channels _initialize_grpc_client opens, in stub order      *)
StubPorts == [i \in 1..num_gpus |-> port_number_default + (i - 1)]

(* ReplicaHandle.liveness as the launching client's __init__ decides it    *)
Liveness ==
    CASE ~UseGrpcServer("launcher") -> "InProcess"
      [] ctor_pc = "start" -> "NotLaunched"
      [] ctor_pc = "raised" /\ process = "none" -> "NotLaunched"
      [] ctor_pc \in {"poll_socket", "poll_process", "poll_sleep"} -> "Starting"
      [] ctor_pc = "raised" -> "Dead"
      [] OTHER -> "Live"

NoRet == [kind |-> "none", shard |-> -1]

InitClientVars ==
    /\ num_gpus \in 1..MaxGpus
    /\ use_grpc_server_arg \in BOOLEAN
    /\ initialize_grpc_client \in BOOLEAN
    /\ foreign_listener \in BOOLEAN
    /\ ctor_pc = "start"
    /\ sockets_open = FALSE
    /\ process = "none"
    /\ worker = [k \in 0..(num_gpus - 1) |-> "none"]
    /\ stubs = [c \in Clients |-> <<>>]
    /\ query_num = 0
    /\ q_pc = "idle"
    /\ q_client = "none"
    /\ calls = [k \in 0..(num_gpus - 1) |-> "none"]
    /\ first_done = -1
    /\ ret = NoRet
    /\ stale = 0
    /\ prev_ret = NoRet
    /\ early_exit = FALSE

queryVars == <<query_num, q_pc, q_client, calls, first_done, ret, stale, prev_ret>>
serverVars == <<process, worker, early_exit>>
argVars == <<num_gpus, use_grpc_server_arg, initialize_grpc_client, foreign_listener>>

(* __init__ up to and including _initialize_service                        *)
InitializeService ==
    /\ ctor_pc = "start"
    /\ IF ~UseGrpcServer("launcher")
       THEN /\ ctor_pc' = "constructed"
            /\ UNCHANGED <<process, worker>>
       ELSE IF IsSocketOpen(port_number_default)
            THEN /\ ctor_pc' = "raised"
                 /\ UNCHANGED <<process, worker>>
            ELSE /\ process' = "running"
                 /\ worker' = [k \in Shards |-> "starting"]
                 /\ ctor_pc' = "poll_socket"
    /\ UNCHANGED <<argVars, sockets_open, stubs, queryVars, early_exit>>

(* sockets_open = self._is_socket_open(self.port_number)                   *)
PollSocket ==
    /\ ctor_pc = "poll_socket"
    /\ sockets_open' = IsSocketOpen(port_number_default)
    /\ ctor_pc' = "poll_process"
    /\ UNCHANGED <<argVars, serverVars, stubs, queryVars>>

(* if not process_alive: raise RuntimeError("server crashed ...")          *)
PollProcessNextRetry(process_alive) == "poll_sleep"

PollProcessNextTimeout(process_alive) == "raised"

PollProcessNext(process_alive) ==
    IF process_alive THEN "poll_sleep" ELSE "raised"

(* process_alive = self._is_server_process_alive(); raise if not           *)
PollProcess ==
    /\ ctor_pc = "poll_process"
    /\ ctor_pc' = PollProcessNext(IsServerProcessAlive)
    /\ UNCHANGED <<argVars, serverVars, sockets_open, stubs, queryVars>>

(* time.sleep(4), then the loop test "while not sockets_open"              *)
PollSleep ==
    /\ ctor_pc = "poll_sleep"
    /\ ctor_pc' = IF ~sockets_open THEN "poll_socket"
                  ELSE IF InitializeGrpcClientFlag("launcher")
                       THEN "init_client" ELSE "constructed"
    /\ UNCHANGED <<argVars, serverVars, sockets_open, stubs, queryVars>>

(* self.stubs = []; self._initialize_grpc_client() of the launching client *)
InitializeGrpcClient ==
    /\ ctor_pc = "init_client"
    /\ stubs' = [stubs EXCEPT !["launcher"] = StubPorts]
    /\ ctor_pc' = "constructed"
    /\ UNCHANGED <<argVars, serverVars, sockets_open, queryVars>>

(* mii_query_handle(deployment_name): a client attached by tag             *)
MiiQueryHandle ==
    /\ stubs["handle"] = <<>>
    /\ stubs' = [stubs EXCEPT !["handle"] = StubPorts]
    /\ UNCHANGED <<argVars, serverVars, ctor_pc, sockets_open, queryVars>>

(* A worker of local rank k starts serving on its port                     *)
WorkerListen(k) ==
    /\ worker[k] = "starting"
    /\ worker' = [worker EXCEPT ![k] = "listening"]
    /\ UNCHANGED <<argVars, process, early_exit, ctor_pc, sockets_open, stubs,
                   queryVars>>

(* A worker process exits; its port stops accepting connections            *)
WorkerExit(k) ==
    /\ worker[k] \in {"starting", "listening"}
    /\ worker' = [worker EXCEPT ![k] = "exited"]
    /\ early_exit' = (early_exit \/ (Liveness = "Starting" /\ ~AllShardPortsOpen))
    /\ UNCHANGED <<argVars, process, ctor_pc, sockets_open, stubs, queryVars>>

(* The launched process (self.process) exits                               *)
LauncherExit ==
    /\ process = "running"
    /\ process' = "exited"
    /\ UNCHANGED <<argVars, worker, early_exit, ctor_pc, sockets_open, stubs,
                   queryVars>>

(* A client object usable as soon as its constructor has been entered      *)
ClientConstructedEarly(c) ==
    IF c = "launcher" THEN ctor_pc \notin {"start", "raised"} ELSE stubs[c] # <<>>

(* The client object exists: its constructor has returned                  *)
ClientConstructed(c) ==
    IF c = "launcher" THEN ctor_pc = "constructed" ELSE stubs[c] # <<>>

(* assert self.initialize_grpc_client, "grpc client has not been setup..." *)
QueryAssertionDropped(c) == TRUE

QueryAssertion(c) == InitializeGrpcClientFlag(c)

(* await responses[0]                                                      *)
AwaitedAnyDone == \E k \in Shards : calls[k] # "pending"

AwaitedDone == calls[0] # "pending"

(* return responses[0]; ret = response.result()                            *)
QueryResultSubstitute ==
    IF calls[0] = "ok"
    THEN [kind |-> "value", shard |-> 0]
    ELSE IF \E k \in Shards : calls[k] = "ok"
         THEN [kind |-> "value", shard |-> CHOOSE k \in Shards : calls[k] = "ok"]
         ELSE [kind |-> "error", shard |-> 0]

QueryResultFirstDone ==
    IF calls[first_done] = "ok"
    THEN [kind |-> "value", shard |-> first_done]
    ELSE [kind |-> "error", shard |-> first_done]

QueryResult ==
    IF calls[0] = "ok"
    THEN [kind |-> "value", shard |-> 0]
    ELSE [kind |-> "error", shard |-> 0]

(* responses = []; one create_task(_request_async_response(i, ...)) per    *)
(* shard                                                                   *)
CreatedTasksKeepFailed ==
    [k \in Shards |-> IF calls[k] = "failed" THEN "failed" ELSE "pending"]

CreatedTasks == [k \in Shards |-> "pending"]

(* Calls of the latest query that nothing awaits any more once a new query *)
(* starts: they stay scheduled on the event loop.                          *)
InFlightCancelled == Cardinality({})

InFlight == Cardinality({k \in Shards : calls[k] = "pending"})

(* query(request_dict) up to the first suspension of the event loop:       *)
(* _query_in_tensor_parallel creates one task per shard, in shard order    *)
Query(c) ==
    /\ q_pc # "awaiting"
    /\ query_num < MaxQueries
    /\ ClientConstructed(c)
    /\ query_num' = query_num + 1
    /\ q_client' = c
    /\ first_done' = -1
    /\ stale' = stale + InFlight
    /\ prev_ret' = ret
    /\ IF ~UseGrpcServer(c)
       THEN /\ ret' = [kind |-> "local", shard |-> -1]
            /\ q_pc' = "returned"
            /\ calls' = [k \in Shards |-> "none"]
       ELSE IF ~QueryAssertion(c)
            THEN /\ ret' = [kind |-> "assert", shard |-> -1]
                 /\ q_pc' = "raised"
                 /\ calls' = [k \in Shards |-> "none"]
            ELSE /\ calls' = CreatedTasks
                 /\ q_pc' = "awaiting"
                 /\ ret' = NoRet
    /\ UNCHANGED <<argVars, serverVars, ctor_pc, sockets_open, stubs>>

(* The RPC of _request_async_response(k, ...) returns a reply              *)
CallOk(k) ==
    /\ calls[k] = "pending"
    /\ IsSocketOpen(stubs[q_client][k + 1])
    /\ calls' = [calls EXCEPT ![k] = "ok"]
    /\ first_done' = IF first_done = -1 THEN k ELSE first_done
    /\ UNCHANGED <<argVars, serverVars, ctor_pc, sockets_open, stubs,
                   query_num, q_pc, q_client, ret, stale, prev_ret>>

(* The RPC raises: connection error or remote exception                    *)
CallFail(k) ==
    /\ calls[k] = "pending"
    /\ calls' = [calls EXCEPT ![k] = "failed"]
    /\ first_done' = IF first_done = -1 THEN k ELSE first_done
    /\ UNCHANGED <<argVars, serverVars, ctor_pc, sockets_open, stubs,
                   query_num, q_pc, q_client, ret, stale, prev_ret>>

(* A call of an earlier query runs to completion; nothing reads its result *)
StaleCallDone ==
    /\ stale > 0
    /\ stale' = stale - 1
    /\ UNCHANGED <<argVars, serverVars, ctor_pc, sockets_open, stubs,
                   query_num, q_pc, q_client, calls, first_done, ret, prev_ret>>

(* run_until_complete returns once "await responses[0]" is over            *)
QueryReturn ==
    /\ q_pc = "awaiting"
    /\ AwaitedDone
    /\ ret' = QueryResult
    /\ q_pc' = IF QueryResult.kind = "value" THEN "returned" ELSE "raised"
    /\ UNCHANGED <<argVars, serverVars, ctor_pc, sockets_open, stubs,
                   query_num, q_client, calls, first_done, stale, prev_ret>>

(* ---------------------------------------------------------------------- *)
(* Specifications                                                         *)
(* ---------------------------------------------------------------------- *)
vars == <<planVars, clientVars>>

(* The client is not used while planning, and the planner not while serving *)
IdleClientVars ==
    /\ InitClientVars
    /\ num_gpus = 1
    /\ use_grpc_server_arg
    /\ initialize_grpc_client
    /\ ~foreign_listener

IdlePlanVars ==
    /\ InitPlanVars
    /\ resource_pool = <<>>

NextPlan ==
    \/ RunPlanner /\ UNCHANGED clientVars
    \/ RunPlannerAgain /\ UNCHANGED clientVars

InitPlan == InitPlanVars /\ IdleClientVars

SpecPlan == InitPlan /\ [][NextPlan]_vars

NextDeploy ==
    \/ AllocateDeployment /\ UNCHANGED clientVars
    \/ AllocateReturn /\ UNCHANGED clientVars
    \/ DeployEmpty /\ UNCHANGED clientVars
    \/ DeployFinish /\ UNCHANGED clientVars

SpecDeploy == InitPlan /\ [][NextDeploy]_vars

NextConfig ==
    \/ GenerateDeployment /\ UNCHANGED clientVars
    \/ GenerateReturn /\ UNCHANGED clientVars
    \/ GenerateSkipped /\ UNCHANGED clientVars

SpecConfig == InitPlan /\ [][NextConfig]_vars

NextClient ==
    \/ InitializeService /\ UNCHANGED planVars
    \/ PollSocket /\ UNCHANGED planVars
    \/ PollProcess /\ UNCHANGED planVars
    \/ PollSleep /\ UNCHANGED planVars
    \/ InitializeGrpcClient /\ UNCHANGED planVars
    \/ MiiQueryHandle /\ UNCHANGED planVars
    \/ LauncherExit /\ UNCHANGED planVars
    \/ \E k \in Shards : WorkerListen(k) /\ UNCHANGED planVars
    \/ \E k \in Shards : WorkerExit(k) /\ UNCHANGED planVars
    \/ \E c \in Clients : Query(c) /\ UNCHANGED planVars
    \/ \E k \in Shards : CallOk(k) /\ UNCHANGED planVars
    \/ \E k \in Shards : CallFail(k) /\ UNCHANGED planVars
    \/ StaleCallDone /\ UNCHANGED planVars
    \/ QueryReturn /\ UNCHANGED planVars

InitClient == IdlePlanVars /\ InitClientVars

SpecClient == InitClient /\ [][NextClient]_vars

(* The thread running _wait_until_server_is_live keeps running: each probe, *)
(* each process check and each sleep of the loop returns.                  *)
PollFairness ==
    /\ WF_vars(PollSocket /\ UNCHANGED planVars)
    /\ WF_vars(PollProcess /\ UNCHANGED planVars)
    /\ WF_vars(PollSleep /\ UNCHANGED planVars)

SpecClientFair == InitClient /\ [][NextClient]_vars /\ PollFairness

(* ---------------------------------------------------------------------- *)
(* Properties of the replica planner (SpecPlan)                           *)
(* ---------------------------------------------------------------------- *)
Automatic == plan.called /\ ~plan.gpu_index_map.given

Explicit == plan.called /\ plan.gpu_index_map.given

Placed == plan.called /\ plan.result.status = "ok"

(* The (host, slotIndex) pairs of a placement, counted with multiplicity:  *)
(* positions <<i, j>> of slot j of assignment i.                           *)
SlotPositions(pool) ==
    UNION {{<<i, j>> : j \in 1..Len(pool[i][2])} : i \in 1..Len(pool)}

PairwiseDisjoint(pool) ==
    \A p, r \in SlotPositions(pool) :
        p # r => <<pool[p[1]][1], pool[p[1]][2][p[2]]>> #
                 <<pool[r[1]][1], pool[r[1]][2][r[2]]>>

DegreeWithinCapacity ==
    \A i \in 1..Len(resource_pool) : plan.tensor_parallel <= resource_pool[i][2]

(* C2, as stated: whenever tensorParallelDegree <= min(host capacities),   *)
(* the assignments the planner returns use pairwise-disjoint (host, slot)  *)
(* pairs, whichever way the placement was computed.                        *)
C2_DisjointAnyPlacement ==
    (Placed /\ DegreeWithinCapacity) => PairwiseDisjoint(plan.result.replica_pool)

(* C2, amended: an automatic placement uses pairwise-disjoint (host, slot) *)
(* pairs; an explicit placement puts its assignments on pairwise distinct  *)
(* hosts and hands back the caller's slot lists unchanged, so a slot       *)
(* repeats only where the caller's own list repeats it.                    *)
C2_DisjointAutomatic ==
    /\ (Placed /\ Automatic) => PairwiseDisjoint(plan.result.replica_pool)
    /\ (Placed /\ Explicit) =>
          LET pool == plan.result.replica_pool
          IN /\ \A i, j \in 1..Len(pool) : i # j => pool[i][1] # pool[j][1]
             /\ pool = plan.gpu_index_map.map

(* Two replicas were carved on one host whose capacity admits the degree.  *)
C2_Witness ==
    /\ Placed /\ Automatic /\ DegreeWithinCapacity
    /\ plan.tensor_parallel >= 2
    /\ \E i, j \in 1..Len(plan.result.replica_pool) :
          i # j /\ plan.result.replica_pool[i][1] = plan.result.replica_pool[j][1]

(* Number of assignments before position i that are on the same host       *)
CarveIndex(pool, i) == Cardinality({j \in 1..(i - 1) : pool[j][1] = pool[i][1]})

(* C9: in automatic placement the k-th replica carved on a host gets the   *)
(* slot indices k*tp .. (k+1)*tp - 1 in increasing order; the catalog      *)
(* {h1: 4, h2: 2} with degree 2 and 3 replicas yields (h1,[0,1]),          *)
(* (h1,[2,3]), (h2,[0,1]) in that order.                                   *)
C9_SlotWindows ==
    /\ (Placed /\ Automatic) =>
          LET pool == plan.result.replica_pool
              tp == plan.tensor_parallel
          IN \A i \in 1..Len(pool) :
                pool[i][2] = [j \in 1..tp |-> CarveIndex(pool, i) * tp + j - 1]
    /\ (/\ Automatic
        /\ resource_pool = << <<"h1", 4>>, <<"h2", 2>> >>
        /\ plan.tensor_parallel = 2
        /\ plan.num_replicas = 3) =>
          /\ plan.result.status = "ok"
          /\ plan.result.replica_pool =
                << <<"h1", <<0, 1>> >>, <<"h1", <<2, 3>> >>, <<"h2", <<0, 1>> >> >>

(* The scenario of C9 has been planned.                                    *)
C9_Witness ==
    /\ Placed /\ Automatic
    /\ resource_pool = << <<"h1", 4>>, <<"h2", 2>> >>
    /\ plan.tensor_parallel = 2
    /\ plan.num_replicas = 3

(* Replicas the hosts can hold: sum of floor(slots / tp)                   *)
RECURSIVE Carvable(_, _)
Carvable(pool, tp) ==
    IF pool = <<>> THEN 0
    ELSE (Head(pool)[2] \div tp) + Carvable(Tail(pool), tp)

(* C10: in automatic placement, when the hosts yield fewer than            *)
(* replicaCount assignments, planning fails with the insufficient-capacity *)
(* error carrying the requested count and the number allocated, and        *)
(* returns no placement; {h1: 2}, degree 2, 2 replicas fails with          *)
(* requested 2, allocated 1.                                               *)
C10_InsufficientCapacity ==
    /\ (/\ Automatic
        /\ resource_pool # <<>>
        /\ Carvable(resource_pool, plan.tensor_parallel) < plan.num_replicas) =>
          /\ plan.result.status = "insufficient"
          /\ plan.result.requested = plan.num_replicas
          /\ plan.result.allocated = Carvable(resource_pool, plan.tensor_parallel)
          /\ plan.result.replica_pool = <<>>
    /\ (/\ Automatic
        /\ resource_pool = << <<"h1", 2>> >>
        /\ plan.tensor_parallel = 2
        /\ plan.num_replicas = 2) =>
          /\ plan.result.status = "insufficient"
          /\ plan.result.requested = 2
          /\ plan.result.allocated = 1

(* A host was carved once and the second replica found no room.            *)
C10_Witness ==
    /\ Automatic
    /\ resource_pool = << <<"h1", 2>> >>
    /\ plan.tensor_parallel = 2
    /\ plan.num_replicas = 2
    /\ plan.result.status = "insufficient"

(* Every host the explicit placement lists is in the catalog with enough   *)
(* slots for one replica.                                                  *)
ListedHostsFit ==
    \A i \in 1..Len(plan.gpu_index_map.map) :
        LET host == plan.gpu_index_map.map[i][1]
        IN /\ host \in Keys(resource_pool)
           /\ Lookup(resource_pool, host) >= plan.tensor_parallel

(* What C12 says of one explicit planning run                              *)
ExplicitOutcome ==
    /\ plan.result.status = "ok" <=> ListedHostsFit
    /\ ListedHostsFit => plan.result.replica_pool = plan.gpu_index_map.map
    /\ ~ListedHostsFit =>
          /\ plan.result.status \in {"host_not_found", "host_slots"}
          /\ plan.result.replica_pool = <<>>
          /\ plan.result.status = "host_not_found" =>
                plan.result.host \notin Keys(resource_pool)
          /\ plan.result.status = "host_slots" =>
                /\ plan.result.host \in Keys(resource_pool)
                /\ Lookup(resource_pool, plan.result.host) < plan.tensor_parallel

(* C12, as stated: with an explicit placement, planning succeeds if and    *)
(* only if every listed host is in the catalog with capacity >= the        *)
(* degree; on success the output is one assignment per listed host in the  *)
(* mapping's insertion order, otherwise it fails with a placement or a     *)
(* capacity error and emits no assignment.                                 *)
C12_ExplicitAnyCatalog == Explicit => ExplicitOutcome

(* C12, amended: the above holds for a catalog that lists at least one     *)
(* host; on an empty catalog planning fails with a no-hosts error before   *)
(* the explicit placement is looked at, an empty placement included.       *)
C12_ExplicitNonEmptyCatalog ==
    /\ (Explicit /\ Len(resource_pool) > 0) => ExplicitOutcome
    /\ (Explicit /\ Len(resource_pool) = 0) =>
          /\ plan.result.status = "no_hosts"
          /\ plan.result.replica_pool = <<>>

(* An explicit placement listing two hosts in the reverse of the catalog's *)
(* order was accepted.                                                     *)
C12_Witness ==
    /\ Explicit /\ Placed
    /\ Len(resource_pool) = 2
    /\ Len(plan.gpu_index_map.map) = 2
    /\ plan.gpu_index_map.map[1][1] = resource_pool[2][1]
    /\ plan.gpu_index_map.map[2][1] = resource_pool[1][1]
    /\ plan.result.replica_pool[1][1] = resource_pool[2][1]

C14_DegreeSlotIndices ==
    Placed =>
        \A i \in 1..Len(plan.result.replica_pool) :
            Len(plan.result.replica_pool[i][2]) = plan.tensor_parallel

(* ---------------------------------------------------------------------- *)
(* Properties of the port allocator (SpecDeploy)                          *)
(* ---------------------------------------------------------------------- *)
(* C1: port allocation never hands out a port twice on one host: the       *)
(* shard-port blocks of any two replicas placed on the same host, of one   *)
(* or of several deployments sharing the port map, are disjoint.           *)
C1_PortsNeverReused ==
    \A i, j \in 1..Len(replica_configs) :
        (i # j /\ replica_configs[i].hostname = replica_configs[j].hostname) =>
            Range(replica_configs[i].tensor_parallel_ports) \cap
            Range(replica_configs[j].tensor_parallel_ports) = {}

(* 0-based index, within its own deployment, of the k-th replica config    *)
ReplicaIndex(k) ==
    Cardinality({j \in 1..(k - 1) :
        replica_configs[j].deployment_name = replica_configs[k].deployment_name})

(* Ports reserved on the host of the k-th replica config when its block    *)
(* was chosen: the blocks of the earlier replica configs on that host.     *)
ReservedBefore(k) ==
    UNION {Range(replica_configs[j].tensor_parallel_ports) :
           j \in {x \in 1..(k - 1) :
                    replica_configs[x].hostname = replica_configs[k].hostname}}

(* Candidate start of the k-th replica config's block                      *)
Candidate(k) ==
    port_number_default
        + ReplicaIndex(k) * replica_configs[k].tensor_parallel + 1

(* C11: the shard ports of replica i are the contiguous block              *)
(* [c, c + tensor_parallel) with c = base port + i*tensor_parallel + 1 if  *)
(* that value is not reserved on the host at that moment, and              *)
(* c = max(reserved) + 1 otherwise; with base port 50000, degree 2, two    *)
(* replicas on one host get {50001,50002} and {50003,50004}.               *)
C11_ShardPortBlock ==
    /\ \A k \in 1..Len(replica_configs) :
          LET cfg == replica_configs[k]
              c == IF Candidate(k) \in ReservedBefore(k)
                   THEN SetMax(ReservedBefore(k)) + 1
                   ELSE Candidate(k)
          IN cfg.tensor_parallel_ports = PyRange(c, c + cfg.tensor_parallel)
    /\ LET a == AllocatePorts(<<<<"h1", <<0, 1>>>>, <<"h1", <<2, 3>>>>>>, 0, 1, 2,
                              50000, EmptyPortMap, <<>>).replica_configs
       IN /\ a[1].tensor_parallel_ports = <<50001, 50002>>
          /\ a[2].tensor_parallel_ports = <<50003, 50004>>

(* One deployment put two replicas of degree 2 on one host, and a later    *)
(* replica on that host found its candidate reserved and advanced.         *)
C11_Witness ==
    \E k1, k2, k3 \in 1..Len(replica_configs) :
        /\ k1 < k2 /\ k2 < k3
        /\ replica_configs[k1].hostname = replica_configs[k2].hostname
        /\ replica_configs[k2].hostname = replica_configs[k3].hostname
        /\ replica_configs[k1].deployment_name = replica_configs[k2].deployment_name
        /\ replica_configs[k1].tensor_parallel = 2
        /\ replica_configs[k1].tensor_parallel_ports[1] = Candidate(k1)
        /\ replica_configs[k2].tensor_parallel_ports[1] = Candidate(k2)
        /\ Candidate(k3) \in ReservedBefore(k3)
        /\ replica_configs[k3].tensor_parallel_ports[1] = SetMax(ReservedBefore(k3)) + 1

(* C17: if planning fails for a deployment of a deploy call with a         *)
(* non-empty deployment list, no score file is written for the tag and     *)
(* nothing is launched: what is stored is what was stored before the call, *)
(* at the failure and ever after.                                          *)
C17_NoPartialDeployment ==
    /\ [](alloc_pc = "raised" => (score_file = ScoreFileBefore /\ ~launched))
    /\ [][alloc_pc = "raised" =>
             (score_file' = score_file /\ launched' = launched)]_vars

(* Planning failed for a later deployment after an earlier one of the same *)
(* call had been given its ports.                                          *)
C17_Witness ==
    /\ alloc_pc = "raised"
    /\ deployments_done >= 1
    /\ Len(replica_configs) >= 1
    /\ DOMAIN port_map # {}

(* ---------------------------------------------------------------------- *)
(* Properties of generate_replica_configs (SpecConfig)                    *)
(* ---------------------------------------------------------------------- *)
(* C15: the coordination port of replica i, i its 0-based index in         *)
(* placement order, equals the coordination base port + i*100, whichever   *)
(* shard ports the replica was given.                                      *)
C15_CoordinationPort ==
    \A k \in 1..Len(replica_configs) :
        replica_configs[k].torch_dist_port =
            torch_dist_port_default + ReplicaIndex(k) * 100

(* C16: no descriptor holds a replica whose number of shard ports differs  *)
(* from the number of slot indices of its assignment.                      *)
C16_PortsMatchSlots ==
    \A k \in 1..Len(replica_configs) :
        Len(replica_configs[k].tensor_parallel_ports) =
            Len(replica_configs[k].gpu_indices)

(* Replica configs the deployment d of the config holds                    *)
ReplicaConfigsOf(d) ==
    {k \in 1..Len(replica_configs) : replica_configs[k].deployment_name = d}

(* C29: after generate_replica_configs has returned, every deployment of   *)
(* the config has exactly replica_num replica configurations, including a  *)
(* deployment that follows one whose replica configs were preset and a     *)
(* deployment with an explicit GPU index map.                              *)
C29_ReplicaNumConfigs ==
    alloc_pc = "returned" =>
        \A d \in 1..Len(replica_nums) :
            Cardinality(ReplicaConfigsOf(d)) = replica_nums[d].replica_num

(* Position of a host in the catalog's iteration order                     *)
HostIndex(host) == CHOOSE q \in 1..Len(resource_pool) : resource_pool[q][1] = host

(* Replicas placed on catalog host q before the i-th replica               *)
CarvedBefore(pool, i, q) ==
    Cardinality({j \in 1..(i - 1) : pool[j][1] = resource_pool[q][1]})

(* C23: automatic placement is first-fit in catalog order: the hosts of    *)
(* consecutive replicas never go backwards in catalog order, and when a    *)
(* replica is placed on a host every host before it in the catalog has     *)
(* already been carved floor(capacity / degree) times.                     *)
C23_FirstFit ==
    (Placed /\ Automatic) =>
        LET pool == plan.result.replica_pool
            tp == plan.tensor_parallel
        IN /\ \A i \in 1..(Len(pool) - 1) :
                 HostIndex(pool[i][1]) <= HostIndex(pool[i + 1][1])
           /\ \A i \in 1..Len(pool) : \A q \in 1..(HostIndex(pool[i][1]) - 1) :
                 /\ CarvedBefore(pool, i, q) = resource_pool[q][2] \div tp
                 /\ resource_pool[q][2] - CarvedBefore(pool, i, q) * tp < tp

(* The first host was filled, with slots to spare, and the second used.    *)
C23_Witness ==
    /\ Placed /\ Automatic
    /\ Len(resource_pool) = 2
    /\ resource_pool[1][2] = 3
    /\ plan.tensor_parallel = 2
    /\ Len(plan.result.replica_pool) = 2
    /\ plan.result.replica_pool[2][1] = resource_pool[2][1]

(* Some host of the catalog has fewer slots than one replica needs         *)
SmallHosts ==
    {q \in 1..Len(resource_pool) : resource_pool[q][2] < plan.tensor_parallel}

(* What automatic placement does with hosts that are too small             *)
AutomaticSkipsSmallHosts ==
    /\ (Placed /\ Automatic) =>
          \A i \in 1..Len(plan.result.replica_pool) :
             HostIndex(plan.result.replica_pool[i][1]) \notin SmallHosts
    /\ (plan.called /\ plan.result.status = "host_slots") => Explicit
    /\ (/\ Automatic
        /\ resource_pool # <<>>
        /\ Carvable(resource_pool, plan.tensor_parallel) >= plan.num_replicas)
       => Placed

(* C24 as stated: in automatic placement a host with fewer slots than the  *)
(* degree never receives a replica and never makes planning fail; the      *)
(* per-host capacity error is raised only in explicit placement, and       *)
(* automatic planning fails only through the final insufficient-capacity   *)
(* check.                                                                  *)
C24_FailsOnlyByFinalCheck ==
    /\ AutomaticSkipsSmallHosts
    /\ (Automatic /\ ~Placed) => plan.result.status = "insufficient"

(* C24: as above, for a catalog that lists at least one host; with an      *)
(* empty catalog automatic planning fails with the no-hosts error before   *)
(* any host is looked at.                                                  *)
C24_FailsByFinalCheckOrNoHosts ==
    /\ AutomaticSkipsSmallHosts
    /\ (Automatic /\ ~Placed /\ resource_pool # <<>>)
          => plan.result.status = "insufficient"
    /\ (Automatic /\ resource_pool = <<>>) => plan.result.status = "no_hosts"

(* A host too small for one replica came first and planning succeeded.     *)
C24_Witness ==
    /\ Placed /\ Automatic
    /\ Len(resource_pool) = 2
    /\ 1 \in SmallHosts
    /\ Len(plan.result.replica_pool) >= 1

(* C27: automatic placement succeeds if and only if the sum over all hosts *)
(* of floor(capacity / degree) is at least the replica count; when the     *)
(* final check fails, the allocated count it reports is exactly that sum.  *)
C27_SucceedsIffCarvable ==
    Automatic =>
        LET total == Carvable(resource_pool, plan.tensor_parallel)
        IN /\ Placed <=> total >= plan.num_replicas
           /\ plan.result.status = "insufficient" =>
                 /\ plan.result.allocated = total
                 /\ plan.result.requested = plan.num_replicas
           /\ (~Placed /\ resource_pool # <<>>) =>
                 plan.result.status = "insufficient"

(* Two hosts both gave replicas and one more was asked for.                *)
C27_Witness ==
    /\ Automatic
    /\ plan.result.status = "insufficient"
    /\ Len(resource_pool) = 2
    /\ resource_pool[1][2] \div plan.tensor_parallel = 1
    /\ resource_pool[2][2] \div plan.tensor_parallel = 1
    /\ plan.num_replicas = 3

PortMapValue(h) == PyValue("set", port_map[h])

(* tensor_parallel_ports and gpu_indices of a replica config: lists        *)
ReplicaConfigLists(k) ==
    {PyValue("list", replica_configs[k].tensor_parallel_ports),
     PyValue("list", replica_configs[k].gpu_indices)}

(* C21: serializing the configuration handed to a worker process and       *)
(* deserializing it again yields a value equal to the original in every    *)
(* field.                                                                  *)
C21_RoundTrip ==
    /\ \A k \in 1..Len(replica_configs) : \A v \in ReplicaConfigLists(k) :
          PyEqual(JsonLoads(JsonDumps(v)), v)
    /\ \A h \in DOMAIN port_map :
          PyEqual(JsonLoads(JsonDumps(PortMapValue(h))), PortMapValue(h))

(* ---------------------------------------------------------------------- *)
(* Properties of the dispatch client (SpecClient)                         *)
(* ---------------------------------------------------------------------- *)
(* The latest query() is over: it returned or raised                       *)
Finished == query_num > 0 /\ q_pc # "awaiting"

(* The latest query fired its shard calls                                  *)
Dispatched == query_num > 0 /\ calls[0] # "none"

(* C3: if shard 0's call fails, the query fails with shard 0's error for   *)
(* every outcome and completion order of the other shards; it never        *)
(* returns another shard's result in its place.                            *)
C3_Shard0FailureFailsQuery ==
    calls[0] = "failed" =>
        /\ ret.kind # "value"
        /\ Finished => (q_pc = "raised" /\ ret = [kind |-> "error", shard |-> 0])

(* Shard 0 failed after another shard had already answered, and the query  *)
(* is over.                                                                *)
C3_Witness ==
    /\ Finished
    /\ calls[0] = "failed"
    /\ first_done > 0
    /\ calls[first_done] = "ok"

(* C6, as stated: the result handed to the caller is the result of         *)
(* whichever of the fired shard calls resolved first.                      *)
C6_FirstResolvedWins ==
    ret.kind \in {"value", "error"} => ret.shard = first_done

(* C6, amended: the result handed to the caller is the result of shard 0's *)
(* call, for every completion order of the shard calls.                    *)
C6_Shard0Wins ==
    ret.kind = "value" => (q_pc = "returned" /\ ret.shard = 0 /\ calls[0] = "ok")

(* A query returned a value although another shard had resolved first.     *)
C6_Witness ==
    /\ ret.kind = "value"
    /\ first_done > 0
    /\ calls[first_done] = "ok"

(* C7: a query completes exactly when the awaited shard-0 call completes:  *)
(* it has not returned while shard 0's call is pending, whatever the other *)
(* shards did, and once shard 0's call is over nothing else holds back its *)
(* return, calls of other shards still in flight included.                 *)
C7_CompletesWithShard0 ==
    Dispatched =>
        /\ calls[0] = "pending" => (~Finished /\ ret = NoRet)
        /\ (calls[0] # "pending" /\ ~Finished) => ENABLED QueryReturn

(* An earlier query is over with a call of another shard still in flight,  *)
(* and the latest one waits for shard 0 although every other shard has     *)
(* answered.                                                               *)
C7_Witness ==
    /\ stale > 0
    /\ q_pc = "awaiting"
    /\ calls[0] = "pending"
    /\ num_gpus > 1
    /\ \A k \in Shards : k # 0 => calls[k] = "ok"

QueryFails ==
    /\ q_pc' = "raised"
    /\ q_pc = "awaiting" \/ query_num' = query_num + 1

(* The step starts a query on a client that has its stubs                  *)
QueryDispatches ==
    /\ query_num' = query_num + 1
    /\ UseGrpcServer(q_client')
    /\ InitializeGrpcClientFlag(q_client')

(* C18: a failed query changes nothing a later query depends on: the       *)
(* stored deployment, the client's stubs and the server processes are      *)
(* unchanged by the failure, and a later query issues a fresh call to      *)
(* every shard, whose outcome is open whatever the failed query left.      *)
C18_FailedQueryIndependent ==
    /\ [][QueryFails =>
             /\ stubs' = stubs
             /\ UNCHANGED <<planVars, argVars, process, worker, ctor_pc>>]_vars
    /\ [][QueryDispatches =>
             /\ \A k \in Shards : calls'[k] = "pending"
             /\ q_pc' = "awaiting" /\ ret' = NoRet /\ first_done' = -1]_vars
    /\ [](q_pc = "awaiting" =>
             \A k \in Shards : calls[k] = "pending" =>
                 /\ ENABLED CallFail(k)
                 /\ ENABLED CallOk(k) <=> IsSocketOpen(StubPorts[k + 1]))

(* A query returned shard 0's value after the query before it had failed   *)
(* on shard 0's error.                                                     *)
C18_Witness ==
    /\ query_num = 2
    /\ prev_ret = [kind |-> "error", shard |-> 0]
    /\ q_pc = "returned"
    /\ ret = [kind |-> "value", shard |-> 0]

(* C19: the client never cancels a shard call it issued: when a query      *)
(* returns or fails the calls to the other shards stay as they are, in     *)
(* flight or completed; a call left in flight is carried over when the     *)
(* next query starts and ends only by completing; its result never         *)
(* reaches a caller.                                                       *)
C19_NeverCancels ==
    /\ [][(q_pc = "awaiting" /\ q_pc' # "awaiting") => calls' = calls]_vars
    /\ [][query_num' = query_num + 1 =>
             stale' = stale + Cardinality({k \in Shards : calls[k] = "pending"})]_vars
    /\ [][stale' < stale =>
             /\ stale' = stale - 1
             /\ UNCHANGED <<ret, prev_ret, q_pc, calls>>]_vars
    /\ [](ret.kind \in {"value", "error"} => ret.shard = 0)

(* A second query has returned while a call of the first query and a call  *)
(* of its own to another shard are still in flight.                        *)
C19_Witness ==
    /\ query_num = 2
    /\ q_pc = "returned"
    /\ stale > 0
    /\ \E k \in Shards : k # 0 /\ calls[k] = "pending"

(* ---------------------------------------------------------------------- *)
(* Properties of the startup supervisor (SpecClient)                      *)
(* ---------------------------------------------------------------------- *)
(* C4: if a shard's worker process exits at a moment when not all shard    *)
(* ports of the replica are reachable, the replica is never reported Live. *)
C4_EarlyExitNeverLive == early_exit => Liveness # "Live"

(* C5: a replica becomes Live only in a state where every one of its       *)
(* shard ports accepts a connection.                                       *)
C5_LiveOnlyWhenAllPortsOpen ==
    [][(Liveness # "Live" /\ Liveness' = "Live") => AllShardPortsOpen']_vars

(* C20: a replica's liveness only moves Starting -> Live or Starting ->     *)
(* Dead; Dead is terminal: no process is launched again, the replica is    *)
(* never reported Live, and the failure reaches the caller as the          *)
(* constructor's error, so no launching client exists.                     *)
C20_DeadIsTerminal ==
    /\ [][Liveness' # Liveness =>
             \/ Liveness = "NotLaunched" /\ Liveness' = "Starting"
             \/ Liveness = "Starting" /\ Liveness' \in {"Live", "Dead"}]_vars
    /\ [][Liveness = "Dead" =>
             /\ Liveness' = "Dead"
             /\ process' = "exited"
             /\ \A k \in Shards : worker'[k] = "starting" => worker[k] = "starting"]_vars
    /\ [][(ctor_pc = "poll_process" /\ ctor_pc' # ctor_pc /\ ~IsServerProcessAlive) =>
             Liveness' = "Dead"]_vars
    /\ [](Liveness = "Dead" =>
             (ctor_pc = "raised" /\ ~ClientConstructed("launcher")
              /\ stubs["launcher"] = <<>>))

(* The launched process exited during startup with a worker already        *)
(* listening: the replica is Dead.                                         *)
C20_Witness ==
    /\ Liveness = "Dead"
    /\ process = "exited"
    /\ \E k \in Shards : worker[k] = "listening"

(* C25: the startup wait has no timeout of its own: the replica leaves     *)
(* Starting for Dead only when the launched process has exited, and for    *)
(* Live only after a probe found the port reachable; while the process is  *)
(* alive and its port has not accepted a connection it stays Starting.     *)
C25_NoStartupTimeout ==
    /\ [][(Liveness = "Starting" /\ Liveness' = "Dead") => process = "exited"]_vars
    /\ [][(Liveness = "Starting" /\ Liveness' # "Starting") =>
             \/ Liveness' = "Dead" /\ ~IsServerProcessAlive
             \/ Liveness' = "Live" /\ sockets_open]_vars
    /\ [][(/\ Liveness = "Starting"
           /\ IsServerProcessAlive
           /\ ~sockets_open
           /\ ~IsSocketOpen(port_number_default)) => Liveness' = "Starting"]_vars

(* The wait ended in Dead before the port ever accepted a connection.      *)
C25_Witness ==
    /\ Liveness = "Dead"
    /\ process = "exited"
    /\ ~sockets_open
    /\ worker[0] = "starting"

(* The step starts a query on the client that launched the service         *)
LauncherQueryStarts ==
    /\ query_num' = query_num + 1
    /\ q_client' = "launcher"
    /\ UseGrpcServer("launcher")

(* C26: when the client launches the service itself, its shard connections *)
(* are created and its queries dispatched only after the replica is Live;  *)
(* if the replica ends Dead the construction fails, and that launch gets   *)
(* no shard connection and no query.                                       *)
C26_ConnectOnlyWhenLive ==
    /\ [][stubs'["launcher"] # stubs["launcher"] =>
             (Liveness = "Live" /\ Liveness' = "Live")]_vars
    /\ [][LauncherQueryStarts => (Liveness = "Live" /\ Liveness' = "Live")]_vars
    /\ [](stubs["launcher"] # <<>> => Liveness = "Live")
    /\ [](Liveness = "Dead" =>
             /\ ~ClientConstructed("launcher")
             /\ stubs["launcher"] = <<>>
             /\ q_client # "launcher")

(* The launching client has its stubs and a query of its own in flight.    *)
C26_Witness ==
    /\ Liveness = "Live"
    /\ stubs["launcher"] # <<>>
    /\ q_client = "launcher"
    /\ q_pc = "awaiting"

(* C28: under fair scheduling of the poll loop, if the launched process    *)
(* eventually exits, or its port eventually accepts connections and keeps  *)
(* doing so, a replica that is Starting eventually leaves Starting and     *)
(* ends in Live or Dead.                                                   *)
C28_WaitTerminates ==
    (\/ <>(process = "exited")
     \/ <>[]IsSocketOpen(port_number_default))
    => [](Liveness = "Starting" => <>[](Liveness \in {"Live", "Dead"}))

(* The wait ended in Live on a port that accepts connections.              *)
C28_Witness ==
    /\ Liveness = "Live"
    /\ sockets_open
    /\ process = "running"
    /\ IsSocketOpen(port_number_default)

(* tensor_parallel_ports[k] of the PortBlock of the replica the client     *)
(* serves: replica 0 of a deployment on a host with no port reserved       *)
TensorParallelPort(k) == BasePort(port_number_default, 0, num_gpus, {}) + k

(* LoadBalancerConfig(port=mii_config.port_number, ...)                    *)
LoadBalancerPort == port_number_default

(* C30: for every shard k the port the client connects to is the k-th      *)
(* shard port of the replica's PortBlock, which is the port the worker of  *)
(* local rank k listens on; the client never dials the load balancer port. *)
C30_ClientDialsShardPorts ==
    \A c \in Clients : stubs[c] # <<>> =>
        \A k \in Shards :
            /\ stubs[c][k + 1] = TensorParallelPort(k)
            /\ stubs[c][k + 1] = ServerPort(k)
            /\ stubs[c][k + 1] # LoadBalancerPort

====
